---- MODULE Spec2Model ----
(***************************************************************************)
(* Model of the deterministic scoring engine                               *)
(* (backend/app/services/scoring_service.py) and of the deterministic      *)
(* training-plan generator (backend/app/services/training_plan_service.py).*)
(*                                                                         *)
(* Numbers.  Python floats are modelled in fixed point: a score of p       *)
(* points is the integer p * Unit.  Values the code reports after          *)
(* round(x, 1) are integers in tenths of a point (75.0 is 750).            *)
(* ats_score is given in tenths of a point as well.                        *)
(*                                                                         *)
(* Text.  Python str values are TLA+ strings; Len, SubSeq and \o act on    *)
(* them character by character.                                            *)
(***************************************************************************)
EXTENDS Integers, Sequences, FiniteSets, TLC

VARIABLES
    github_metrics,   \* the metrics dict handed to compute_scores
    resume_data,      \* the resume dict, or None
    role_applied,     \* the role text, or None
    clock,            \* datetime.now(timezone.utc), in whole days
    result,           \* what the latest compute_scores call returned
    plan,             \* what the latest generate_training_plan call returned
    call,             \* a direct call of one function: its name and its arguments
    ret,              \* what that call returned
    db_obj,           \* the Application row of the database, or None
    response          \* the latest request of a route and its HTTP status code

vars == <<github_metrics, resume_data, role_applied, clock, result, plan, call, ret,
          db_obj, response>>

---------------------------------------------------------------------------
(* Python values *)

None == [kind |-> "None"]

Str(s) == [kind |-> "str", s |-> s]

Dict(d) == [kind |-> "dict", d |-> d]

List(items) == [kind |-> "list", items |-> items]

\* bool(x) of an optional dict, str or list
Truthy(x) ==
    CASE x.kind = "None" -> FALSE
      [] x.kind = "dict" -> DOMAIN x.d # {}
      [] x.kind = "str"  -> x.s # ""
      [] x.kind = "list" -> x.items # <<>>
      [] OTHER           -> TRUE

\* dict.get(key, default)
Get(d, key, default) == IF key \in DOMAIN d THEN d[key] ELSE default

Min(a, b) == IF a <= b THEN a ELSE b

Max(a, b) == IF a >= b THEN a ELSE b

Unit == 10000

\* round(x, 1): x in 1/Unit points, the result in tenths; ties go to the even tenth
Round1(x) ==
    LET q == x \div (Unit \div 10)
        r == x % (Unit \div 10)
        half == Unit \div 20
    IN  IF r > half THEN q + 1
        ELSE IF r < half THEN q
        ELSE IF q % 2 = 0 THEN q ELSE q + 1

---------------------------------------------------------------------------
(* str methods *)

UpperChars == "ABCDEFGHIJKLMNOPQRSTUVWXYZ"

LowerChars == "abcdefghijklmnopqrstuvwxyz"

\* the lower-case letter of every upper-case letter
LowerOf ==
    [c \in {SubSeq(UpperChars, i, i) : i \in 1..Len(UpperChars)} |->
        LET i == CHOOSE j \in 1..Len(UpperChars) : SubSeq(UpperChars, j, j) = c
        IN  SubSeq(LowerChars, i, i)]

RECURSIVE LowerAt(_, _)
\* s with the letters at the positions ups replaced by their lower-case letters
LowerAt(s, ups) ==
    IF ups = {} THEN s
    ELSE LET i == CHOOSE j \in ups : TRUE
         IN  LowerAt(SubSeq(s, 1, i - 1) \o LowerOf[SubSeq(s, i, i)] \o SubSeq(s, i + 1, Len(s)),
                     ups \ {i})

\* s.lower()
Lower(s) == LowerAt(s, {i \in 1..Len(s) : SubSeq(s, i, i) \in DOMAIN LowerOf})

IsSpace(s, i) == SubSeq(s, i, i) = " "

\* s.strip()
Strip(s) ==
    LET solid == {i \in 1..Len(s) : ~IsSpace(s, i)}
    IN  IF solid = {} THEN ""
        ELSE LET lo == CHOOSE i \in solid : \A j \in solid : i <= j
                 hi == CHOOSE i \in solid : \A j \in solid : i >= j
             IN  SubSeq(s, lo, hi)

\* needle in hay
Contains(hay, needle) ==
    \E i \in 0..(Len(hay) - Len(needle)) :
        SubSeq(hay, i + 1, i + Len(needle)) = needle

\* s.split()[0] of a text that holds a word
FirstWord(s) ==
    LET t == Strip(s)
        gaps == {i \in 1..Len(t) : IsSpace(t, i)}
    IN  IF gaps = {} THEN t
        ELSE SubSeq(t, 1, (CHOOSE i \in gaps : \A j \in gaps : i <= j) - 1)

---------------------------------------------------------------------------
(* helpers *)

_clamp(value, lo, hi) == Max(lo, Min(hi, value))

\* math.log1p(x) * Unit for x in 0..80, rounded to the nearest integer
Log1pTable == <<
    0, 6931, 10986, 13863, 16094, 17918, 19459, 20794, 21972, 23026,
    23979, 24849, 25649, 26391, 27081, 27726, 28332, 28904, 29444, 29957,
    30445, 30910, 31355, 31781, 32189, 32581, 32958, 33322, 33673, 34012,
    34340, 34657, 34965, 35264, 35553, 35835, 36109, 36376, 36636, 36889,
    37136, 37377, 37612, 37842, 38067, 38286, 38501, 38712, 38918, 39120,
    39318, 39512, 39703, 39890, 40073, 40254, 40431, 40604, 40775, 40943,
    41109, 41271, 41431, 41589, 41744, 41897, 42047, 42195, 42341, 42485,
    42627, 42767, 42905, 43041, 43175, 43307, 43438, 43567, 43694, 43820,
    43944 >>

Log1p(x) == Log1pTable[x + 1]

\* a curve without the cap at full credit
_log_curve_uncapped(x, scale) ==
    IF x <= 0 THEN 0
    ELSE (Log1p(x) * Unit) \div Log1p(scale)

\* a curve that reaches full credit one count after scale
_log_curve_late(x, scale) ==
    IF x <= 0 THEN 0
    ELSE Min(Unit, (Log1p(x) * Unit) \div Log1p(scale + 1))

\* the curve's value in 1/Unit: Unit is full credit
_log_curve(x, scale) ==
    IF x <= 0 THEN 0
    ELSE Min(Unit, (Log1p(x) * Unit) \div Log1p(scale))

---------------------------------------------------------------------------
(* per-role keyword sets *)

ALL_ROLE_LABELS == <<"backend", "frontend", "data", "full stack", "devops">>

ROLE_KEYWORDS ==
    [label \in {ALL_ROLE_LABELS[i] : i \in DOMAIN ALL_ROLE_LABELS} |->
        CASE label = "backend" ->
                <<"python", "fastapi", "django", "flask", "api", "sql", "postgresql",
                  "mongodb", "redis", "docker", "node.js", "express", "go", "java",
                  "spring", "rest", "graphql", "microservices">>
          [] label = "frontend" ->
                <<"react", "javascript", "typescript", "html", "css", "vue", "angular",
                  "next.js", "tailwind", "sass", "webpack", "vite", "ui", "ux",
                  "responsive", "figma">>
          [] label = "data" ->
                <<"pandas", "numpy", "ml", "tensorflow", "sklearn", "pytorch", "r",
                  "jupyter", "data", "analysis", "visualization", "statistics",
                  "spark", "airflow", "sql", "tableau">>
          [] label = "full stack" ->
                <<"react", "javascript", "typescript", "python", "node.js", "api",
                  "sql", "html", "css", "docker", "mongodb", "postgresql", "rest",
                  "git", "ci/cd", "aws">>
          [] label = "devops" ->
                <<"docker", "kubernetes", "aws", "gcp", "azure", "terraform",
                  "ci/cd", "jenkins", "github actions", "linux", "shell", "ansible",
                  "monitoring", "nginx", "prometheus">>]

\* a normalizer that only lowercases and trims
_normalize_role_key_verbatim(role) == Lower(Strip(role))

\* a normalizer without the second pass over the labels' first words
_normalize_role_key_whole_only(role) ==
    LET key == Lower(Strip(role))
        whole == {i \in DOMAIN ALL_ROLE_LABELS :
                     Contains(key, ALL_ROLE_LABELS[i]) \/ Contains(ALL_ROLE_LABELS[i], key)}
        first(S) == CHOOSE i \in S : \A j \in S : i <= j
    IN  IF whole # {} THEN ALL_ROLE_LABELS[first(whole)]
        ELSE key

\* a normalizer that matches no label against an empty key
_normalize_role_key_empty_unresolved(role) ==
    LET key == Lower(Strip(role))
        whole == {i \in DOMAIN ALL_ROLE_LABELS :
                     Contains(key, ALL_ROLE_LABELS[i])
                         \/ (key # "" /\ Contains(ALL_ROLE_LABELS[i], key))}
        fuzzy == {i \in DOMAIN ALL_ROLE_LABELS :
                     Contains(key, FirstWord(ALL_ROLE_LABELS[i]))}
        first(S) == CHOOSE i \in S : \A j \in S : i <= j
    IN  IF whole # {} THEN ALL_ROLE_LABELS[first(whole)]
        ELSE IF fuzzy # {} THEN ALL_ROLE_LABELS[first(fuzzy)]
        ELSE key

_normalize_role_key(role) ==
    LET key == Lower(Strip(role))
        whole == {i \in DOMAIN ALL_ROLE_LABELS :
                     Contains(key, ALL_ROLE_LABELS[i]) \/ Contains(ALL_ROLE_LABELS[i], key)}
        fuzzy == {i \in DOMAIN ALL_ROLE_LABELS :
                     Contains(key, FirstWord(ALL_ROLE_LABELS[i]))}
        first(S) == CHOOSE i \in S : \A j \in S : i <= j
    IN  IF whole # {} THEN ALL_ROLE_LABELS[first(whole)]
        ELSE IF fuzzy # {} THEN ALL_ROLE_LABELS[first(fuzzy)]
        ELSE key

---------------------------------------------------------------------------
(* score components; every score is in 1/Unit points *)

\* {k.lower() for k in languages.keys()}; languages holds the keys of the mapping
LangKeys(languages) == {Lower(k) : k \in languages}

\* resume_data.get("keywords_detected") or .get("keywords") or .get("skill_keywords") or []
KeywordsOf(d) ==
    IF Get(d, "keywords_detected", {}) # {} THEN d["keywords_detected"]
    ELSE IF Get(d, "keywords", {}) # {} THEN d["keywords"]
    ELSE Get(d, "skill_keywords", {})

ALL_TECH ==
    {"python", "fastapi", "django", "flask", "api", "sql", "react",
     "javascript", "typescript", "html", "css", "pandas", "numpy",
     "ml", "tensorflow", "sklearn", "docker", "aws", "postgresql",
     "mongodb", "git", "node.js", "java", "go", "rust", "vue",
     "angular", "kubernetes", "redis", "graphql", "next.js", "express",
     "spring", "pytorch", "linux", "shell", "ci/cd"}

\* a scorer in which a positive ats_score replaces the keyword score
_resume_skill_score_ats_replaces(resume, languages) ==
    IF ~Truthy(resume)
    THEN _clamp(Min(Cardinality(LangKeys(languages)) * 3 * Unit, 15 * Unit), 0, 30 * Unit)
    ELSE LET keyword_set == {Lower(Strip(k)) : k \in {w \in KeywordsOf(resume.d) : Strip(w) # ""}}
             combined == keyword_set \cup LangKeys(languages)
             matches == Cardinality(combined \cap ALL_TECH)
             score == Min(matches * 3 * Unit, 30 * Unit)
             ats == Get(resume.d, "ats_score", 0)
             final == IF ats > 0 THEN (ats * 3 * Unit) \div 100 ELSE score
         IN  _clamp(final, 0, 30 * Unit)

\* a scorer whose no-resume base is capped by the 30-point ceiling alone
_resume_skill_score_base_uncapped(resume, languages) ==
    IF ~Truthy(resume)
    THEN _clamp(Cardinality(LangKeys(languages)) * 3 * Unit, 0, 30 * Unit)
    ELSE LET keyword_set == {Lower(Strip(k)) : k \in {w \in KeywordsOf(resume.d) : Strip(w) # ""}}
             combined == keyword_set \cup LangKeys(languages)
             matches == Cardinality(combined \cap ALL_TECH)
             score == Min(matches * 3 * Unit, 30 * Unit)
             ats == Get(resume.d, "ats_score", 0)
             final == IF ats > 0 THEN Max(score, (ats * 3 * Unit) \div 100) ELSE score
         IN  _clamp(final, 0, 30 * Unit)

_resume_skill_score(resume, languages) ==
    IF ~Truthy(resume)
    THEN _clamp(Min(Cardinality(LangKeys(languages)) * 3 * Unit, 15 * Unit), 0, 30 * Unit)
    ELSE LET keyword_set == {Lower(Strip(k)) : k \in {w \in KeywordsOf(resume.d) : Strip(w) # ""}}
             combined == keyword_set \cup LangKeys(languages)
             matches == Cardinality(combined \cap ALL_TECH)
             score == Min(matches * 3 * Unit, 30 * Unit)
             ats == Get(resume.d, "ats_score", 0)
             \* ats is in tenths of a point: ats * 0.3 points
             final == IF ats > 0 THEN Max(score, (ats * 3 * Unit) \div 100) ELSE score
         IN  _clamp(final, 0, 30 * Unit)

\* metrics.get("total_public_repos", metrics.get("total_repos", 0)) or 0
ReposOf(metrics) == Get(metrics, "total_public_repos", Get(metrics, "total_repos", 0))

_github_activity_score(metrics) ==
    LET stars == Get(metrics, "total_stars", 0)
        commits_90 == Get(metrics, "commits_last_90_days", 0)
        repos == ReposOf(metrics)
        star_pts == _log_curve(stars, 20) * 8
        commit_pts == _log_curve(commits_90, 30) * 10
        repo_pts == _log_curve(repos, 8) * 7
    IN  _clamp(star_pts + commit_pts + repo_pts, 0, 25 * Unit)

RECURSIVE SumStars(_)
\* sum(float(r.get("stars", 0) or 0) for r in top_repos)
SumStars(top_repos) ==
    IF top_repos = <<>> THEN 0
    ELSE Get(Head(top_repos), "stars", 0) + SumStars(Tail(top_repos))

_project_depth_score(metrics) ==
    LET top_repos == Get(metrics, "top_repositories", <<>>)
        languages == Get(metrics, "languages", {})
        repos == ReposOf(metrics)
        top_stars == SumStars(top_repos)
        star_pts == _log_curve(top_stars, 10) * 7
        lang_count == Cardinality(languages)
        \* min(lang_count / 3.0, 1.0) * 6.0
        lang_pts == (Min(lang_count * Unit, 3 * Unit) * 6) \div 3
        repo_pts == _log_curve(repos, 5) * 4
        detail_pts == Min(Len(top_repos), 3) * Unit
    IN  _clamp(star_pts + lang_pts + repo_pts + detail_pts, 0, 20 * Unit)

\* keywords in which the resume keywords, when there are any, replace the language names
Combined_ResumeOverridesLanguages(languages, resume) ==
    IF Truthy(resume) /\ KeywordsOf(resume.d) # {}
    THEN {Lower(Strip(k)) : k \in KeywordsOf(resume.d)}
    ELSE LangKeys(languages)

\* the keywords both role scorers match against: language names and resume keywords
Combined(languages, resume) ==
    LangKeys(languages) \cup
        (IF Truthy(resume) THEN {Lower(Strip(k)) : k \in KeywordsOf(resume.d)} ELSE {})

\* sum(1 for kw in required if kw in combined)
Matches(required, combined) ==
    Cardinality({i \in DOMAIN required : required[i] \in combined})

\* the alignment scaled as a percentage, as the all-roles chart scales it
_role_alignment_score_percent(role_key, languages, resume) ==
    LET required == IF role_key \in DOMAIN ROLE_KEYWORDS THEN ROLE_KEYWORDS[role_key] ELSE <<>>
    IN  IF required = <<>> THEN (15 * Unit) \div 2
        ELSE LET matches == Matches(required, Combined(languages, resume))
             IN  _clamp((matches * 100 * Unit) \div Len(required), 0, 100 * Unit)

\* an unknown role scored as a role without matches
_role_alignment_score_unknown_zero(role_key, languages, resume) ==
    LET required == IF role_key \in DOMAIN ROLE_KEYWORDS THEN ROLE_KEYWORDS[role_key] ELSE <<>>
    IN  IF required = <<>> THEN 0
        ELSE LET matches == Matches(required, Combined(languages, resume))
             IN  _clamp((matches * 15 * Unit) \div Len(required), 0, 15 * Unit)

\* an unknown role scored at the gap threshold
_role_alignment_score_neutral_eight(role_key, languages, resume) ==
    LET required == IF role_key \in DOMAIN ROLE_KEYWORDS THEN ROLE_KEYWORDS[role_key] ELSE <<>>
    IN  IF required = <<>> THEN 8 * Unit
        ELSE LET matches == Matches(required, Combined(languages, resume))
             IN  _clamp((matches * 15 * Unit) \div Len(required), 0, 15 * Unit)

_role_alignment_score(role_key, languages, resume) ==
    LET required == IF role_key \in DOMAIN ROLE_KEYWORDS THEN ROLE_KEYWORDS[role_key] ELSE <<>>
    IN  IF required = <<>> THEN (15 * Unit) \div 2
        ELSE LET matches == Matches(required, Combined(languages, resume))
             IN  _clamp((matches * 15 * Unit) \div Len(required), 0, 15 * Unit)

\* percentages that match the language names alone
_compute_all_role_scores_languages_only(languages, resume) ==
    [role_key \in DOMAIN ROLE_KEYWORDS |->
        LET required == ROLE_KEYWORDS[role_key]
            matches == Matches(required, LangKeys(languages))
        IN  Round1(_clamp((matches * 100 * Unit) \div Len(required), 0, 100 * Unit))]

_compute_all_role_scores(languages, resume) ==
    [role_key \in DOMAIN ROLE_KEYWORDS |->
        LET required == ROLE_KEYWORDS[role_key]
            matches == Matches(required, Combined(languages, resume))
        IN  Round1(_clamp((matches * 100 * Unit) \div Len(required), 0, 100 * Unit))]

---------------------------------------------------------------------------
(* recency: the only scorer that reads the clock and that can meet an exception *)

\* last_activity is None, or a value of one of these kinds:
\*   "aware": an ISO-8601 text with a UTC offset (or Z), at midnight of day `day`
\*   "naive": an ISO-8601 text without an offset
\*   "garbage": a text datetime.fromisoformat rejects
Aware(d) == [kind |-> "aware", day |-> d]

Naive(d) == [kind |-> "naive", day |-> d]

Garbage == [kind |-> "garbage", day |-> 0]

\* the body of the try block: the freshness points, or the exception it meets
TryFreshness(last_activity, now) ==
    IF last_activity.kind = "garbage" THEN [exc |-> "ValueError", pts |-> 0]
    ELSE IF last_activity.kind = "naive" THEN [exc |-> "TypeError", pts |-> 0]
    ELSE LET days_ago == now - last_activity.day
         IN  [exc |-> "none",
              pts |-> IF days_ago <= 7 THEN 5 * Unit
                      ELSE IF days_ago <= 30 THEN 4 * Unit
                      ELSE IF days_ago <= 90 THEN 3 * Unit
                      ELSE IF days_ago <= 180 THEN (3 * Unit) \div 2
                      ELSE 0]

\* an except clause that names ValueError alone
Caught_ValueErrorOnly(exc) == exc = "ValueError"

\* except Exception: every exception of the try block is caught
Caught(exc) == exc \in {"ValueError", "TypeError"}

\* [exc, pts]: exc is "none" when the function returns pts
_recency_score(metrics, now) ==
    LET commits_90 == Get(metrics, "commits_last_90_days", 0)
        last_activity == Get(metrics, "last_activity", None)
        commit_pts == _log_curve(commits_90, 20) * 5
        try == IF last_activity.kind = "None" THEN [exc |-> "none", pts |-> 0]
               ELSE TryFreshness(last_activity, now)
    IN  IF try.exc = "none"
        THEN [exc |-> "none", pts |-> _clamp(commit_pts + try.pts, 0, 10 * Unit)]
        ELSE IF Caught(try.exc)
        THEN [exc |-> "none", pts |-> _clamp(commit_pts + 2 * Unit, 0, 10 * Unit)]
        ELSE [exc |-> try.exc, pts |-> 0]

---------------------------------------------------------------------------
(* main entry *)

\* the gap messages (the dash of the first two is a long dash in the source)
GapLanguage == "Expand language diversity - learn a second core language"

GapConsistency == "Increase coding consistency - aim for regular commits"

GapVisibility == "Build projects with greater visibility and documentation"

GapRole(role) ==
    "Strengthen skills aligned to " \o (IF Truthy(role) THEN role.s ELSE "target") \o " role"

GapResume == "Add more relevant tech keywords and project details to resume"

ConfidenceBand(master_score) ==
    IF master_score >= 75 * Unit THEN "Strong"
    ELSE IF master_score >= 60 * Unit THEN "Good"
    ELSE IF master_score >= 45 * Unit THEN "Moderate"
    ELSE "Risk"

\* a gap list whose visibility check also fires at exactly 3 stars
LearningGaps_StarsInclusive(languages, metrics, role, resume, role_pts, resume_pts) ==
    LET lang_count == Cardinality(languages)
        commits_90 == Get(metrics, "commits_last_90_days", 0)
        stars == Get(metrics, "total_stars", 0)
    IN  (IF lang_count < 2 THEN <<GapLanguage>> ELSE <<>>)
        \o (IF commits_90 < 10 THEN <<GapConsistency>> ELSE <<>>)
        \o (IF stars <= 3 THEN <<GapVisibility>> ELSE <<>>)
        \o (IF role_pts < 8 * Unit THEN <<GapRole(role)>> ELSE <<>>)
        \o (IF resume_pts < 15 * Unit /\ Truthy(resume) THEN <<GapResume>> ELSE <<>>)

\* the learning_gaps list, from the unrounded sub-scores
LearningGaps(languages, metrics, role, resume, role_pts, resume_pts) ==
    LET lang_count == Cardinality(languages)
        commits_90 == Get(metrics, "commits_last_90_days", 0)
        stars == Get(metrics, "total_stars", 0)
    IN  (IF lang_count < 2 THEN <<GapLanguage>> ELSE <<>>)
        \o (IF commits_90 < 10 THEN <<GapConsistency>> ELSE <<>>)
        \o (IF stars < 3 THEN <<GapVisibility>> ELSE <<>>)
        \o (IF role_pts < 8 * Unit THEN <<GapRole(role)>> ELSE <<>>)
        \o (IF resume_pts < 15 * Unit /\ Truthy(resume) THEN <<GapResume>> ELSE <<>>)

\* a sum that leaves the recency points out
MasterScore_WithoutRecency(resume_pts, github_pts, project_pts, role_pts, recency_pts) ==
    _clamp(resume_pts + github_pts + project_pts + role_pts, 0, 100 * Unit)

\* the unrounded master_score
MasterScore(resume_pts, github_pts, project_pts, role_pts, recency_pts) ==
    _clamp(resume_pts + github_pts + project_pts + role_pts + recency_pts, 0, 100 * Unit)

compute_scores(metrics, resume, role, now) ==
    LET languages == Get(metrics, "languages", {})
        role_key == _normalize_role_key(IF Truthy(role) THEN role.s ELSE "")
        resume_pts == _resume_skill_score(resume, languages)
        github_pts == _github_activity_score(metrics)
        project_pts == _project_depth_score(metrics)
        role_pts == _role_alignment_score(role_key, languages, resume)
        recency == _recency_score(metrics, now)
        recency_pts == recency.pts
        master_score == MasterScore(resume_pts, github_pts, project_pts, role_pts, recency_pts)
    IN  IF recency.exc # "none" THEN [kind |-> "raised", exc |-> recency.exc]
        ELSE [kind |-> "CompositeResult",
              master_score |-> Round1(master_score),
              confidence_band |-> ConfidenceBand(master_score),
              score_breakdown |->
                  [resume_skill_score |-> Round1(resume_pts),
                   github_activity_score |-> Round1(github_pts),
                   project_quality_score |-> Round1(project_pts),
                   role_alignment_score |-> Round1(role_pts),
                   recency_score |-> Round1(recency_pts),
                   all_role_scores |-> _compute_all_role_scores(languages, resume)],
              learning_gaps |->
                  LearningGaps(languages, metrics, role, resume, role_pts, resume_pts)]

---------------------------------------------------------------------------
(* deterministic training plan *)

ROLE_TRAINING_TOPICS ==
    [label \in {ALL_ROLE_LABELS[i] : i \in DOMAIN ALL_ROLE_LABELS} |->
        CASE label = "backend" ->
                [foundation |->
                    <<"Python fundamentals & best practices",
                      "HTTP & REST API design patterns",
                      "SQL & database design principles">>,
                 intermediate |->
                    <<"FastAPI / Django development",
                      "Authentication & authorization patterns",
                      "Database optimization & indexing">>,
                 advanced |->
                    <<"Microservices architecture",
                      "Caching strategies (Redis)",
                      "API security & rate limiting">>]
          [] label = "frontend" ->
                [foundation |->
                    <<"HTML5 & CSS3 fundamentals",
                      "JavaScript ES6+ core concepts",
                      "Responsive design principles">>,
                 intermediate |->
                    <<"React component architecture",
                      "State management (Context, Redux)",
                      "TypeScript for React applications">>,
                 advanced |->
                    <<"Performance optimization & code splitting",
                      "Testing (Jest, React Testing Library)",
                      "Next.js & server-side rendering">>]
          [] label = "data" ->
                [foundation |->
                    <<"Python for data analysis",
                      "Pandas & NumPy fundamentals",
                      "SQL for data querying">>,
                 intermediate |->
                    <<"Data visualization (Matplotlib, Seaborn)",
                      "Statistical analysis & hypothesis testing",
                      "Machine learning basics (scikit-learn)">>,
                 advanced |->
                    <<"Deep learning (TensorFlow/PyTorch)",
                      "Feature engineering & model optimization",
                      "Data pipeline design (Airflow, dbt)">>]
          [] label = "full stack" ->
                [foundation |->
                    <<"HTML/CSS/JS web fundamentals",
                      "React component basics",
                      "Node.js / Python backend basics">>,
                 intermediate |->
                    <<"Full stack CRUD application",
                      "REST API + React integration",
                      "Database design & ORM usage">>,
                 advanced |->
                    <<"Docker & deployment workflows",
                      "CI/CD pipeline setup",
                      "System design & architecture">>]
          [] label = "devops" ->
                [foundation |->
                    <<"Linux command line & shell scripting",
                      "Git workflows & branching strategies",
                      "Basic networking concepts">>,
                 intermediate |->
                    <<"Docker containerization",
                      "CI/CD with GitHub Actions",
                      "Cloud services (AWS/GCP basics)">>,
                 advanced |->
                    <<"Kubernetes orchestration",
                      "Infrastructure as Code (Terraform)",
                      "Monitoring & observability">>]]

\* a table that gives the band Good the six weeks of Moderate
PlanParameters_GoodSixWeeks(confidence_band) ==
    IF confidence_band = "Risk"
    THEN [weeks |-> 8, track |-> "Foundational", start_level |-> "foundation"]
    ELSE IF confidence_band = "Moderate"
    THEN [weeks |-> 6, track |-> "Strengthening", start_level |-> "foundation"]
    ELSE IF confidence_band = "Good"
    THEN [weeks |-> 6, track |-> "Accelerated", start_level |-> "intermediate"]
    ELSE [weeks |-> 4, track |-> "Advanced", start_level |-> "advanced"]

\* a table whose last row is for Strong alone; every other value gets the Moderate row
PlanParameters_UnknownIsModerate(confidence_band) ==
    IF confidence_band = "Risk"
    THEN [weeks |-> 8, track |-> "Foundational", start_level |-> "foundation"]
    ELSE IF confidence_band = "Good"
    THEN [weeks |-> 5, track |-> "Accelerated", start_level |-> "intermediate"]
    ELSE IF confidence_band = "Strong"
    THEN [weeks |-> 4, track |-> "Advanced", start_level |-> "advanced"]
    ELSE [weeks |-> 6, track |-> "Strengthening", start_level |-> "foundation"]

\* the (weeks, track, start_level) of a confidence band
PlanParameters(confidence_band) ==
    IF confidence_band = "Risk"
    THEN [weeks |-> 8, track |-> "Foundational", start_level |-> "foundation"]
    ELSE IF confidence_band = "Moderate"
    THEN [weeks |-> 6, track |-> "Strengthening", start_level |-> "foundation"]
    ELSE IF confidence_band = "Good"
    THEN [weeks |-> 5, track |-> "Accelerated", start_level |-> "intermediate"]
    ELSE [weeks |-> 4, track |-> "Advanced", start_level |-> "advanced"]

\* the focus area of one gap text: the first rule that matches
FocusArea(gap, role) ==
    LET gap_lower == Lower(gap)
    IN  IF Contains(gap_lower, "language") \/ Contains(gap_lower, "diversity")
        THEN "Technology stack expansion for " \o role
        ELSE IF Contains(gap_lower, "consistency") \/ Contains(gap_lower, "commit")
        THEN "Regular coding practice & contribution discipline"
        ELSE IF Contains(gap_lower, "visibility") \/ Contains(gap_lower, "documentation")
        THEN "Project documentation & portfolio building"
        ELSE IF Contains(gap_lower, "role") \/ Contains(gap_lower, "align")
        THEN "Core " \o role \o " skill development"
        ELSE IF Contains(gap_lower, "resume")
        THEN "Resume & professional profile enhancement"
        ELSE "Technical skill development"

\* a focus_areas list that is left empty when there is no gap
FocusAreas_NoGeneric(learning_gaps, role) ==
    LET used == SubSeq(learning_gaps, 1, Min(Len(learning_gaps), 4))
    IN  [i \in DOMAIN used |-> FocusArea(used[i], role)]

\* a focus_areas list with one entry per gap, however many gaps there are
FocusAreas_AllGaps(learning_gaps, role) ==
    LET focus_areas == [i \in DOMAIN learning_gaps |-> FocusArea(learning_gaps[i], role)]
    IN  IF focus_areas = <<>>
        THEN <<"Deep " \o role \o " specialization",
               "Building production-ready projects",
               "Industry best practices & patterns">>
        ELSE focus_areas

\* the focus_areas list: one entry per gap of learning_gaps[:4], or the generic three
FocusAreas(learning_gaps, role) ==
    LET used == SubSeq(learning_gaps, 1, Min(Len(learning_gaps), 4))
        focus_areas == [i \in DOMAIN used |-> FocusArea(used[i], role)]
    IN  IF focus_areas = <<>>
        THEN <<"Deep " \o role \o " specialization",
               "Building production-ready projects",
               "Industry best practices & patterns">>
        ELSE focus_areas

level_order == <<"foundation", "intermediate", "advanced">>

\* level_order.index(level)
LevelIndex(level) == (CHOOSE i \in DOMAIN level_order : level_order[i] = level) - 1

\* the text of s before the first occurrence of the character c: s.split(c)[0]
BeforeFirst(s, c) ==
    LET at == {i \in 1..Len(s) : SubSeq(s, i, i) = c}
    IN  IF at = {} THEN s
        ELSE SubSeq(s, 1, (CHOOSE i \in at : \A j \in at : i <= j) - 1)

\* every topic of the catalogs
AllTopics ==
    UNION {{ROLE_TRAINING_TOPICS[label][level][i] : i \in 1..3} :
              label \in DOMAIN ROLE_TRAINING_TOPICS, level \in {"foundation", "intermediate", "advanced"}}

\* the objectives and tasks a week derives from its main topic, for every catalog topic
TopicTexts ==
    [main_topic \in AllTopics |->
        [objectives |->
             <<"Understand core concepts of " \o Lower(main_topic),
               "Complete hands-on exercises for "
                   \o Lower(Strip(BeforeFirst(main_topic, "&")))>>,
         tasks |->
             <<"Build a mini-project demonstrating "
                   \o Lower(Strip(BeforeFirst(main_topic, "(")))>>]]

\* a week entry whose level is interpolated from the foundation level, whatever the
\* start level
WeekEntry_FromFoundation(week_num, weeks, start_idx, role_topics) ==
    LET steps == ((week_num - 1) * 2) \div Max(weeks - 1, 1)
        level_idx == Min(steps, 2)
        level == level_order[level_idx + 1]
        topics == role_topics[level]
        topic_idx == (week_num - 1) % Len(topics)
        main_topic == topics[topic_idx + 1]
        others == [i \in 1..(Len(topics) - 1) |->
                      IF i <= topic_idx THEN topics[i] ELSE topics[i + 1]]
    IN  [week |-> week_num,
         goal |-> main_topic,
         objectives |-> TopicTexts[main_topic].objectives,
         topics |-> <<main_topic>> \o SubSeq(others, 1, Min(Len(others), 1)),
         tasks |-> TopicTexts[main_topic].tasks,
         deliverables |->
             <<"Working code pushed to GitHub with documentation",
               "Progress report with learning reflections">>]

\* a week entry whose progress is (week_num - 1) / weeks
WeekEntry_ProgressOverWeeks(week_num, weeks, start_idx, role_topics) ==
    LET steps == ((week_num - 1) * (2 - start_idx)) \div weeks
        level_idx == Min(start_idx + steps, 2)
        level == level_order[level_idx + 1]
        topics == role_topics[level]
        topic_idx == (week_num - 1) % Len(topics)
        main_topic == topics[topic_idx + 1]
        others == [i \in 1..(Len(topics) - 1) |->
                      IF i <= topic_idx THEN topics[i] ELSE topics[i + 1]]
    IN  [week |-> week_num,
         goal |-> main_topic,
         objectives |-> TopicTexts[main_topic].objectives,
         topics |-> <<main_topic>> \o SubSeq(others, 1, Min(Len(others), 1)),
         tasks |-> TopicTexts[main_topic].tasks,
         deliverables |->
             <<"Working code pushed to GitHub with documentation",
               "Progress report with learning reflections">>]

\* the entry of week week_num in a plan of `weeks` weeks
WeekEntry(week_num, weeks, start_idx, role_topics) ==
    LET \* int(progress * (2 - start_idx)), progress = (week_num - 1) / max(weeks - 1, 1)
        steps == ((week_num - 1) * (2 - start_idx)) \div Max(weeks - 1, 1)
        level_idx == Min(start_idx + steps, 2)
        level == level_order[level_idx + 1]
        topics == role_topics[level]
        topic_idx == (week_num - 1) % Len(topics)
        main_topic == topics[topic_idx + 1]
        others == [i \in 1..(Len(topics) - 1) |->
                      IF i <= topic_idx THEN topics[i] ELSE topics[i + 1]]
    IN  [week |-> week_num,
         goal |-> main_topic,
         objectives |-> TopicTexts[main_topic].objectives,
         topics |-> <<main_topic>> \o SubSeq(others, 1, Min(Len(others), 1)),
         tasks |-> TopicTexts[main_topic].tasks,
         deliverables |->
             <<"Working code pushed to GitHub with documentation",
               "Progress report with learning reflections">>]

\* the summary, as the values its template embeds, in order
Summary(track, weeks, candidate_name, role, master_score, confidence_band, focus_areas) ==
    [track |-> track,
     weeks |-> weeks,
     name_ref |-> IF candidate_name # "" THEN " for " \o candidate_name ELSE "",
     role |-> role,
     master_score |-> master_score,
     confidence_band |-> confidence_band,
     focuses |-> [i \in 1..Min(Len(focus_areas), 2) |-> Lower(focus_areas[i])]]

\* score_result is a dict; role and candidate_name are texts
generate_training_plan(score_result, role, candidate_name) ==
    LET master_score == Get(score_result, "master_score", 500)
        confidence_band == Get(score_result, "confidence_band", "Moderate")
        learning_gaps == Get(score_result, "learning_gaps", <<>>)
        role_key == _normalize_role_key(role)
        role_topics == IF role_key \in DOMAIN ROLE_TRAINING_TOPICS
                       THEN ROLE_TRAINING_TOPICS[role_key]
                       ELSE ROLE_TRAINING_TOPICS["full stack"]
        params == PlanParameters(confidence_band)
        focus_areas == FocusAreas(learning_gaps, role)
        start_idx == IF \E i \in DOMAIN level_order : level_order[i] = params.start_level
                     THEN LevelIndex(params.start_level) ELSE 0
    IN  [kind |-> "TrainingPlan",
         summary |-> Summary(params.track, params.weeks, candidate_name, role,
                             master_score, confidence_band, focus_areas),
         focus_areas |-> focus_areas,
         weekly_plan |->
             [week_num \in 1..params.weeks |->
                 WeekEntry(week_num, params.weeks, start_idx, role_topics)]]

---------------------------------------------------------------------------
(* the inputs *)

\* no route has been requested yet
NoRequest == [route |-> "none", code |-> 0]

MaxLangs == 3

MaxTicks == 1

LanguageNames == <<"Python", "JavaScript", "Go", "Rust", "C", "TypeScript", "Shell", "Java">>

\* the keys of a languages mapping that declares the first n names
Languages(n) == {LanguageNames[i] : i \in 1..n}

\* top_repositories of the fetcher: the (at most 3) most starred repositories,
\* most starred first; the stars of the account sit on the first one
TopRepositories(repos, stars) ==
    [i \in 1..Min(repos, 3) |->
        [name |-> "repo", stars |-> IF i = 1 THEN stars ELSE 0, language |-> "Python"]]

MetricsRecord(repos, stars, commits, languages, last_activity) ==
    [total_repos |-> repos,
     total_public_repos |-> repos,
     total_stars |-> stars,
     top_repositories |-> TopRepositories(repos, stars),
     languages |-> languages,
     last_activity |-> last_activity,
     commits_last_90_days |-> commits]

\* the record the fetcher returns when the fetch fails
_safe_empty == MetricsRecord(0, 0, 0, {}, None)

LastActivityDom == {None, Aware(0 - 7), Naive(0 - 7), Garbage}

MetricsDom ==
    {MetricsRecord(repos, stars, commits, Languages(n), la) :
        repos \in {0, 5}, stars \in {0, 3}, commits \in {0, 10, 40},
        n \in 0..MaxLangs, la \in LastActivityDom}

\* a repository count of 0 leaves no stars; a dict with every key missing is accepted too
ValidMetrics ==
    {m \in MetricsDom : m.total_public_repos = 0 => m.total_stars = 0} \cup {<<>>}

ResumeDom ==
    {None,
     Dict([keywords_detected |-> {}, ats_score |-> 499, project_quality |-> 40]),
     Dict([keywords_detected |-> {"React ", "docker"}, ats_score |-> 820, project_quality |-> 75]),
     Dict([keywords_detected |->
               {"python", "fastapi", "django", "postgresql", "docker", "redis", "api",
                "sql", "git", "rest"},
           ats_score |-> 0, project_quality |-> 75])}

RoleDom == {None, Str("Backend Developer"), Str("Space Pirate"), Str("Data Science")}

CandidateNames == {"", "Asha"}

---------------------------------------------------------------------------
(* the state machine *)

Init ==
    /\ github_metrics \in ValidMetrics
    /\ resume_data \in ResumeDom
    /\ role_applied \in RoleDom
    /\ clock = 0
    /\ result = None
    /\ plan = None
    /\ call = None
    /\ ret = None
    /\ db_obj = None
    /\ response = NoRequest

\* a day passes
Tick ==
    /\ clock < MaxTicks
    /\ clock' = clock + 1
    /\ UNCHANGED <<github_metrics, resume_data, role_applied, result, plan, call, ret, db_obj, response>>

\* a call of compute_scores on the inputs, at the current time
ComputeScores ==
    /\ result' = compute_scores(github_metrics, resume_data, role_applied, clock)
    /\ UNCHANGED <<github_metrics, resume_data, role_applied, clock, plan, call, ret, db_obj, response>>

\* a call of generate_training_plan on the latest result, as the routes make it:
\* with the role text of the application and the candidate's name
GeneratePlan ==
    /\ result.kind = "CompositeResult"
    /\ \E candidate_name \in CandidateNames :
          plan' = generate_training_plan(
                      result,
                      IF role_applied.kind = "str" THEN role_applied.s ELSE "",
                      candidate_name)
    /\ UNCHANGED <<github_metrics, resume_data, role_applied, clock, result, call, ret, db_obj, response>>

Next == Tick \/ ComputeScores \/ GeneratePlan

Spec == Init /\ [][Next]_vars

---------------------------------------------------------------------------
(* direct calls of the functions, one function at a time *)

Returns(v) == [kind |-> "returned", value |-> v]

RolePrefixes == {"", " ", "Senior "}

RoleCores ==
    {"Backend", "FRONTEND", "Data", "Full Stack", "DevOps", "Fullstack", "end", "a",
     "", "Stack", "Space Pirate", "ML", "Language"}

RoleSuffixes == {"", " Developer", "  "}

\* free-text role titles, in arbitrary casing and padding
RoleTexts ==
    {pre \o core \o post : pre \in RolePrefixes, core \in RoleCores, post \in RoleSuffixes}

MaxCount == 60

\* the counts the curve is applied to, and the scales the scorers pass
CurveCounts == (0 - 2)..MaxCount

CurveScales == {1, 2, 5, 8, 10, 20, 30}

MaxDeclared == 7

\* ats_score values, in tenths of a point
AtsValues == {0, 1, 10, 300, 499, 500, 820, 1000}

UnitKeywordSets ==
    {{}, {"React ", "docker"},
     {"python", "fastapi", "django", "postgresql", "docker", "redis", "api", "sql",
      "git", "rest", "Kubernetes", "aws"}}

\* resume dicts with and without an ats_score; the empty dict and None are no resume
UnitResumes ==
    {None, Dict(<<>>)}
        \cup {Dict([keywords_detected |-> kw]) : kw \in UnitKeywordSets}
        \cup {Dict([keywords_detected |-> kw, ats_score |-> ats]) :
                  kw \in UnitKeywordSets, ats \in AtsValues}

\* the ages, in whole days, around every step of the freshness table
UnitAges == {0 - 1, 0, 7, 8, 30, 31, 90, 91, 180, 181, 400}

UnitLastActivity ==
    {None, Garbage} \cup {Aware(0 - age) : age \in UnitAges}
        \cup {Naive(0 - age) : age \in UnitAges}

\* a null confidence_band, written as the summary prints it; it equals no band name
NullBand == "None"

UnitBands == {"Risk", "Moderate", "Good", "Strong", "Elite", NullBand}

UnitGapLists ==
    {<<>>,
     <<GapVisibility>>,
     <<GapConsistency, GapRole(Str("Data Science"))>>,
     <<GapLanguage, GapConsistency, GapVisibility, GapRole(None), GapResume>>,
     <<GapResume, "Improve testing habits">>,
     <<GapRole(Str("Language")), GapVisibility, GapRole(Str("QA"))>>}

\* score_result dicts: stored evaluations, and dicts that miss the optional keys
UnitScoreResults ==
    {[master_score |-> 612, confidence_band |-> band, learning_gaps |-> gaps] :
         band \in UnitBands, gaps \in UnitGapLists}
        \cup {[master_score |-> 612, confidence_band |-> band] : band \in UnitBands}
        \cup {[learning_gaps |-> gaps] : gaps \in UnitGapLists}

UnitCalls ==
    {[fn |-> "_normalize_role_key", role |-> text] : text \in RoleTexts}
        \cup {[fn |-> "_log_curve", x |-> x, scale |-> scale] :
                  x \in CurveCounts, scale \in CurveScales}
        \cup {[fn |-> "_resume_skill_score", resume |-> resume, languages |-> Languages(n)] :
                  resume \in UnitResumes, n \in 0..MaxDeclared}
        \cup {[fn |-> "_recency_score",
               metrics |-> MetricsRecord(0, 0, commits, {}, la), now |-> 0] :
                  commits \in {0, 10}, la \in UnitLastActivity}
        \cup {[fn |-> "generate_training_plan", score_result |-> sr, role |-> text,
               candidate_name |-> "Asha"] :
                  sr \in UnitScoreResults, text \in RoleTexts}

InitUnits ==
    /\ call \in UnitCalls
    /\ ret = None
    /\ github_metrics = _safe_empty
    /\ resume_data = None
    /\ role_applied = None
    /\ clock = 0
    /\ result = None
    /\ plan = None
    /\ db_obj = None
    /\ response = NoRequest

CallNormalizeRole ==
    /\ call.fn = "_normalize_role_key"
    /\ ret' = Returns(_normalize_role_key(call.role))
    /\ UNCHANGED <<github_metrics, resume_data, role_applied, clock, result, plan, call, db_obj, response>>

CallLogCurve ==
    /\ call.fn = "_log_curve"
    /\ ret' = Returns(_log_curve(call.x, call.scale))
    /\ UNCHANGED <<github_metrics, resume_data, role_applied, clock, result, plan, call, db_obj, response>>

CallResumeSkill ==
    /\ call.fn = "_resume_skill_score"
    /\ ret' = Returns(_resume_skill_score(call.resume, call.languages))
    /\ UNCHANGED <<github_metrics, resume_data, role_applied, clock, result, plan, call, db_obj, response>>

CallRecency ==
    /\ call.fn = "_recency_score"
    /\ ret' = LET r == _recency_score(call.metrics, call.now)
              IN  IF r.exc = "none" THEN Returns(r.pts) ELSE [kind |-> "raised", exc |-> r.exc]
    /\ UNCHANGED <<github_metrics, resume_data, role_applied, clock, result, plan, call, db_obj, response>>

CallGeneratePlan ==
    /\ call.fn = "generate_training_plan"
    /\ ret' = Returns(generate_training_plan(call.score_result, call.role, call.candidate_name))
    /\ UNCHANGED <<github_metrics, resume_data, role_applied, clock, result, plan, call, db_obj, response>>

NextUnits ==
    CallNormalizeRole \/ CallLogCurve \/ CallResumeSkill \/ CallRecency \/ CallGeneratePlan

SpecUnits == InitUnits /\ [][NextUnits]_vars

---------------------------------------------------------------------------
(* the scoring and planning calls over free-text role titles *)

PipelineRoles ==
    {None} \cup {Str(core \o post) : core \in RoleCores, post \in RoleSuffixes}

PipelineMetrics ==
    {_safe_empty,
     MetricsRecord(5, 0, 10, Languages(2), None),
     MetricsRecord(5, 3, 40, Languages(3), Aware(0 - 7))}

PipelineResumes ==
    ResumeDom \cup
        {Dict([keywords_detected |-> {"fastapi", "django", "sql", "api"},
               ats_score |-> 0, project_quality |-> 40])}

InitRoles ==
    /\ github_metrics \in PipelineMetrics
    /\ resume_data \in PipelineResumes
    /\ role_applied \in PipelineRoles
    /\ clock = 0
    /\ result = None
    /\ plan = None
    /\ call = None
    /\ ret = None
    /\ db_obj = None
    /\ response = NoRequest

SpecRoles == InitRoles /\ [][Next]_vars

---------------------------------------------------------------------------
(* the application routes: one row of the applications table *)

\* a float column that holds a value (master_score, trust_score: tenths of a point)
Float(v) == [kind |-> "float", value |-> v]

\* an LLM curriculum, as generate_training_plan_llm asks for it
LlmPlan ==
    Dict([summary |-> Str("Personalised curriculum"),
          focus_areas |-> List(<<"FastAPI", "PostgreSQL">>),
          weekly_plan |-> List(<<"Week 1: FastAPI routing">>)])

\* what generate_training_plan_llm returns: None when the key is missing, the request
\* fails or the content is no JSON, otherwise the JSON object of the content
LlmOutcomes == {None, Dict(<<>>), LlmPlan}

\* the training_plan a verification run can return: {} when the planner output holds
\* no JSON object, otherwise the object parsed from it
CrewPlans ==
    {Dict(<<>>),
     Dict([summary |-> Str("Onboarding curriculum")]),
     Dict([summary |-> Str("Onboarding curriculum"), weekly_plan |-> None]),
     Dict([summary |-> Str("Onboarding curriculum"), weekly_plan |-> List(<<>>)]),
     Dict([summary |-> Str("Onboarding curriculum"),
           weekly_plan |-> List(<<"Week 1: repository audit">>)])}

\* run_verification: it returns its result dict, or the import of the crew or the
\* crew itself raises
CrewOutcomes ==
    {[kind |-> "raised", exc |-> "ImportError"], [kind |-> "raised", exc |-> "Exception"]}
        \cup {[kind |-> "result", trust_score |-> 720, training_plan |-> crew_plan] :
                  crew_plan \in CrewPlans}

\* the row create_application saves: pending, scored, without a training plan
NewApplication(full_name, role, score_result) ==
    [full_name |-> full_name,
     role_applied |-> role,
     status |-> "pending",
     master_score |-> Float(score_result.master_score),
     confidence_band |-> score_result.confidence_band,
     learning_gaps |-> score_result.learning_gaps,
     trust_score |-> None,
     training_plan |-> None]

\* rows the seed script writes: scored, in one of four statuses, without a plan
SeededRows ==
    {[full_name |-> "Arjun Sharma",
      role_applied |-> "Backend Developer",
      status |-> status,
      master_score |-> Float(782),
      confidence_band |-> "Strong",
      learning_gaps |-> <<"Strengthen frontend skills",
                          "Learn microservices & container orchestration">>,
      trust_score |-> None,
      training_plan |-> None] :
         status \in {"pending", "in_review", "accepted", "rejected"}}

\* a row whose scoring has not completed: master_score is NULL
UnscoredRow ==
    [full_name |-> "Ravi",
     role_applied |-> "Data Analyst",
     status |-> "pending",
     master_score |-> None,
     confidence_band |-> NullBand,
     learning_gaps |-> <<>>,
     trust_score |-> None,
     training_plan |-> None]

\* the id of the one row, and an id no row has
ApplicationIds == {1, 2}

\* db.query(Application).filter(Application.id == application_id).first()
Lookup(application_id) == IF application_id = 1 THEN db_obj ELSE None

\* the statuses a status update can ask for
Statuses == {"pending", "in_review", "accepted", "rejected", "intern"}

\* transitions that also reopen a rejected application
allowed_reopens ==
    [current \in Statuses |->
        CASE current = "pending"   -> {"in_review", "accepted", "rejected"}
          [] current = "in_review" -> {"accepted", "rejected"}
          [] current = "accepted"  -> {"intern"}
          [] current = "intern"    -> {}
          [] current = "rejected"  -> {"pending"}]

\* the transition table of update_status
allowed ==
    [current \in Statuses |->
        CASE current = "pending"   -> {"in_review", "accepted", "rejected"}
          [] current = "in_review" -> {"accepted", "rejected"}
          [] current = "accepted"  -> {"intern"}
          [] current = "intern"    -> {}
          [] current = "rejected"  -> {}]

\* a plan choice that takes every LLM answer other than None
final_plan_any_answer(row, llm_plan) ==
    IF llm_plan # None THEN llm_plan
    ELSE generate_training_plan(
             [master_score |-> row.master_score.value,
              confidence_band |-> row.confidence_band,
              learning_gaps |-> row.learning_gaps],
             row.role_applied, row.full_name)

\* the plan generate_plan stores: the LLM plan if there is one, else the deterministic
\* plan from the stored score, band and gaps
final_plan(row, llm_plan) ==
    IF Truthy(llm_plan) THEN llm_plan
    ELSE generate_training_plan(
             [master_score |-> row.master_score.value,
              confidence_band |-> row.confidence_band,
              learning_gaps |-> row.learning_gaps],
             row.role_applied, row.full_name)

\* a test that takes every non-empty crew plan
crew_plan_accepted_any_dict(crew_plan) == Truthy(crew_plan)

\* crew_plan and isinstance(crew_plan, dict) and crew_plan.get("weekly_plan")
crew_plan_accepted(crew_plan) ==
    /\ Truthy(crew_plan)
    /\ crew_plan.kind = "dict"
    /\ Truthy(Get(crew_plan.d, "weekly_plan", None))

InitRoutes ==
    /\ db_obj \in {None, UnscoredRow} \cup SeededRows
    /\ response = NoRequest
    /\ github_metrics = _safe_empty
    /\ resume_data = None
    /\ role_applied = None
    /\ clock = 0
    /\ result = None
    /\ plan = None
    /\ call = None
    /\ ret = None

\* POST /applications: the scored row is committed with status pending; the import of
\* LLM_API_KEY, a name llm_service does not define, then raises outside the try block,
\* so the request fails and the automatic verification run is never started
create_application ==
    /\ db_obj = None
    /\ \E metrics \in PipelineMetrics, resume \in {None, Dict([keywords_detected |->
                                                   {"fastapi", "django", "sql", "api"},
                                               ats_score |-> 0, project_quality |-> 40])},
          role \in {"Backend Developer", "Space Pirate"} :
          LET score_result == compute_scores(metrics, resume, Str(role), clock)
          IN  /\ score_result.kind = "CompositeResult"
              /\ db_obj' = NewApplication("Asha", role, score_result)
              /\ response' = [route |-> "create_application", code |-> 500,
                              role_applied |-> role]
    /\ UNCHANGED <<github_metrics, resume_data, role_applied, clock, result, plan, call, ret>>

\* POST /applications/{id}/generate-plan
generate_plan ==
    /\ \E application_id \in ApplicationIds, llm_plan \in LlmOutcomes :
          LET row == Lookup(application_id)
              request == [route |-> "generate_plan", application_id |-> application_id,
                          llm_plan |-> llm_plan]
          IN  IF row = None
              THEN /\ response' = [request EXCEPT !.llm_plan = None] @@ [code |-> 404]
                   /\ UNCHANGED db_obj
              ELSE IF row.master_score = None
              THEN /\ response' = [request EXCEPT !.llm_plan = None] @@ [code |-> 400]
                   /\ UNCHANGED db_obj
              ELSE /\ db_obj' = [db_obj EXCEPT !.training_plan = final_plan(row, llm_plan)]
                   /\ response' = request @@ [code |-> 200]
    /\ UNCHANGED <<github_metrics, resume_data, role_applied, clock, result, plan, call, ret>>

\* PATCH /applications/{id}/status
update_status ==
    /\ \E application_id \in ApplicationIds, next_status \in Statuses :
          LET row == Lookup(application_id)
              request == [route |-> "update_status", application_id |-> application_id,
                          status |-> next_status]
          IN  IF row = None
              THEN /\ response' = request @@ [code |-> 404]
                   /\ UNCHANGED db_obj
              ELSE IF next_status \notin
                          (IF row.status \in DOMAIN allowed THEN allowed[row.status] ELSE {})
              THEN /\ response' = request @@ [code |-> 400]
                   /\ UNCHANGED db_obj
              ELSE /\ db_obj' = [db_obj EXCEPT !.status = next_status]
                   /\ response' = request @@ [code |-> 200]
    /\ UNCHANGED <<github_metrics, resume_data, role_applied, clock, result, plan, call, ret>>

\* POST /applications/{id}/verify
verify_candidate ==
    /\ \E application_id \in ApplicationIds, outcome \in CrewOutcomes :
          LET row == Lookup(application_id)
              request == [route |-> "verify_candidate", application_id |-> application_id,
                          outcome |-> outcome]
          IN  IF row = None
              THEN /\ response' = [request EXCEPT !.outcome = None] @@ [code |-> 404]
                   /\ UNCHANGED db_obj
              ELSE IF outcome.kind = "raised"
              THEN /\ response' =
                          request @@ [code |-> IF outcome.exc = "ImportError" THEN 503 ELSE 500]
                   /\ UNCHANGED db_obj
              ELSE /\ db_obj' =
                          [db_obj EXCEPT
                              !.trust_score = Float(outcome.trust_score),
                              !.training_plan =
                                  IF crew_plan_accepted(outcome.training_plan)
                                  THEN outcome.training_plan ELSE @]
                   /\ response' = request @@ [code |-> 200]
    /\ UNCHANGED <<github_metrics, resume_data, role_applied, clock, result, plan, call, ret>>

NextRoutes == create_application \/ generate_plan \/ update_status \/ verify_candidate

SpecRoutes == InitRoutes /\ [][NextRoutes]_vars

---------------------------------------------------------------------------
(* properties of compute_scores *)

Returned == result.kind = "CompositeResult"

Breakdown == result.score_breakdown

\* the applied role text as compute_scores normalizes it
RoleKey == _normalize_role_key(IF Truthy(role_applied) THEN role_applied.s ELSE "")

Abs(x) == IF x < 0 THEN 0 - x ELSE x

\* the band the thresholds 75 / 60 / 45 give a reported score (in tenths)
BandOfReported(score) ==
    IF score >= 750 THEN "Strong"
    ELSE IF score >= 600 THEN "Good"
    ELSE IF score >= 450 THEN "Moderate"
    ELSE "Risk"

\* C1: in every returned result the band is the threshold function of the reported
\* master_score: Strong iff >= 75, Good iff in [60, 75), Moderate iff in [45, 60),
\* Risk iff < 45
C1_BandOfReportedScore ==
    Returned => result.confidence_band = BandOfReported(result.master_score)

\* the sum of the five reported sub-scores, clamped to [0, 100], in tenths
ReportedSum ==
    _clamp(Breakdown.resume_skill_score + Breakdown.github_activity_score
               + Breakdown.project_quality_score + Breakdown.role_alignment_score
               + Breakdown.recency_score,
           0, 1000)

\* C2 as stated: the reported master_score equals the clamped sum of the five
\* reported sub-scores
C2_MasterIsSumOfReported == Returned => result.master_score = ReportedSum

\* C2 as amended: the reported master_score is within 0.3 of the clamped sum of the
\* five reported sub-scores (each of the six values is rounded on its own)
C2_MasterWithinRounding == Returned => Abs(result.master_score - ReportedSum) <= 3

\* a result whose reported master_score is not the sum of its reported sub-scores
C2_Witness == Returned /\ result.master_score # ReportedSum

\* C3: every returned sub-score is within its ceiling (30, 25, 20, 15, 10) and
\* master_score is within [0, 100]
C3_ScoresWithinCeilings ==
    Returned =>
        /\ Breakdown.resume_skill_score \in 0..300
        /\ Breakdown.github_activity_score \in 0..250
        /\ Breakdown.project_quality_score \in 0..200
        /\ Breakdown.role_alignment_score \in 0..150
        /\ Breakdown.recency_score \in 0..100
        /\ result.master_score \in 0..1000

\* a result in which the recency and the resume-skill sub-scores sit at their ceilings
C3_Witness ==
    /\ Returned
    /\ Breakdown.recency_score = 100
    /\ Breakdown.resume_skill_score = 300
    /\ Breakdown.github_activity_score > 150

\* C4: a call of compute_scores that follows another call on the same inputs returns
\* the identical result, whenever it is made
C4_SameInputsSameResult ==
    [][(Returned /\ result'.kind = "CompositeResult") => result' = result]_vars

\* C5 as stated: when the applied role resolves to category C, all_role_scores[C]
\* equals role_alignment_score / 15 * 100 exactly
C5_PercentageIsAlignmentRatio ==
    (Returned /\ RoleKey \in DOMAIN ROLE_KEYWORDS) =>
        Breakdown.all_role_scores[RoleKey] * 15 = Breakdown.role_alignment_score * 100

\* C5 as amended: when the applied role resolves to category C, all_role_scores[C]
\* and role_alignment_score / 15 * 100 differ by less than 0.39: both are one-decimal
\* roundings of the same matches/required ratio
C5_PercentageWithinRounding ==
    (Returned /\ RoleKey \in DOMAIN ROLE_KEYWORDS) =>
        Abs(Breakdown.all_role_scores[RoleKey] * 15 - Breakdown.role_alignment_score * 100)
            <= 57

\* a result for a resolved role whose two reported values do not agree exactly
C5_Witness ==
    /\ Returned
    /\ RoleKey \in DOMAIN ROLE_KEYWORDS
    /\ Breakdown.all_role_scores[RoleKey] * 15 # Breakdown.role_alignment_score * 100

\* C6: every generated plan has between 3 and 5 focus areas
C6_FocusAreasThreeToFive ==
    plan.kind = "TrainingPlan" => Len(plan.focus_areas) \in 3..5

\* the checks of the gap list, in their fixed order
GapOrder == <<"language", "consistency", "visibility", "role", "resume">>

\* the condition of each check, on the inputs and the unrounded sub-scores
GapHolds(check) ==
    LET languages == Get(github_metrics, "languages", {})
    IN  CASE check = "language" -> Cardinality(languages) < 2
          [] check = "consistency" -> Get(github_metrics, "commits_last_90_days", 0) < 10
          [] check = "visibility" -> Get(github_metrics, "total_stars", 0) < 3
          [] check = "role" ->
                 _role_alignment_score(RoleKey, languages, resume_data) < 8 * Unit
          [] check = "resume" ->
                 /\ resume_data # None
                 /\ _resume_skill_score(resume_data, languages) < 15 * Unit

GapMessage(check) ==
    CASE check = "language" -> GapLanguage
      [] check = "consistency" -> GapConsistency
      [] check = "visibility" -> GapVisibility
      [] check = "role" -> GapRole(role_applied)
      [] check = "resume" -> GapResume

\* C7: learning_gaps is the subsequence of the fixed order of messages in which each
\* message is present iff its own condition holds
C7_GapsAreTheHoldingChecks ==
    Returned =>
        LET holding == SelectSeq(GapOrder, GapHolds)
        IN  result.learning_gaps = [i \in DOMAIN holding |-> GapMessage(holding[i])]

\* a result for a resume whose list holds the visibility message alone
C7_Witness ==
    /\ Returned
    /\ resume_data # None
    /\ result.learning_gaps = <<GapVisibility>>
    /\ ~GapHolds("role")

\* the all-zero scenario: the empty metrics record, no resume, role "Backend Developer"
ZeroScenario ==
    /\ github_metrics = _safe_empty
    /\ resume_data = None
    /\ role_applied = Str("Backend Developer")

\* C8: the all-zero scenario returns master_score 0, every sub-score 0, band Risk and
\* the language-diversity, consistency and visibility messages
C8_ZeroScenario ==
    (ZeroScenario /\ Returned) =>
        /\ result.master_score = 0
        /\ Breakdown.resume_skill_score = 0
        /\ Breakdown.github_activity_score = 0
        /\ Breakdown.project_quality_score = 0
        /\ Breakdown.role_alignment_score = 0
        /\ Breakdown.recency_score = 0
        /\ result.confidence_band = "Risk"
        /\ {GapLanguage, GapConsistency, GapVisibility}
               \subseteq {result.learning_gaps[i] : i \in DOMAIN result.learning_gaps}

C8_Witness == ZeroScenario /\ Returned

\* C9: for a role text that resolves to no category the role-alignment sub-score
\* is 7.5 and all_role_scores holds a percentage for each of the five categories
C9_UnknownRoleIsNeutral ==
    (Returned /\ RoleKey \notin DOMAIN ROLE_KEYWORDS) =>
        /\ Breakdown.role_alignment_score = 75
        /\ DOMAIN Breakdown.all_role_scores =
               {"backend", "frontend", "data", "full stack", "devops"}
        /\ \A c \in DOMAIN Breakdown.all_role_scores :
               Breakdown.all_role_scores[c] \in 0..1000

\* an unresolved role with languages and resume keywords that match some category
C9_Witness ==
    /\ Returned
    /\ role_applied = Str("Space Pirate")
    /\ Breakdown.all_role_scores["backend"] > 0
    /\ resume_data # None

\* C10: no call of compute_scores raises
C10_NeverRaises == result.kind # "raised"

\* a call that returned on a record without keys, and one on an unparseable timestamp
\* with neither resume nor role
C10_Witness ==
    /\ Returned
    /\ resume_data = None
    /\ role_applied = None
    /\ \/ github_metrics = <<>>
       \/ Get(github_metrics, "last_activity", None).kind \in {"naive", "garbage"}

---------------------------------------------------------------------------
(* properties of the functions called directly *)

Called(fn) == call # None /\ call.fn = fn /\ ret.kind = "returned"

Labels == {ALL_ROLE_LABELS[i] : i \in DOMAIN ALL_ROLE_LABELS}

\* the three ways a lowercased, trimmed text matches a category label
LabelMatches(key) ==
    \E label \in Labels :
        \/ Contains(key, label)
        \/ Contains(label, key)
        \/ Contains(key, FirstWord(label))

\* C11: role normalization returns a catalog category exactly when a label is a
\* substring of the lowercased trimmed text, or the text is a substring of a label, or
\* a label's first word is a substring of the text; otherwise it returns the lowercased
\* trimmed text unchanged, and that text is not a key of the keyword catalog
C11_NormalizeRole ==
    Called("_normalize_role_key") =>
        LET key == Lower(Strip(call.role))
        IN  /\ (ret.value \in Labels) <=> LabelMatches(key)
            /\ ~LabelMatches(key) =>
                   (ret.value = key /\ key \notin DOMAIN ROLE_KEYWORDS)

\* a padded, mixed-case title matched by a label's first word alone, and a title that
\* passes through
C11_Witness ==
    /\ Called("_normalize_role_key")
    /\ \/ call.role = " Fullstack Developer" /\ ret.value = "full stack"
       \/ call.role = "Senior ML  " /\ ret.value = "senior ml"

\* the number of reference technologies among the resume keywords and language names
ResumeMatches(resume, languages) ==
    LET keyword_set == {Lower(Strip(k)) : k \in {w \in KeywordsOf(resume.d) : Strip(w) # ""}}
    IN  Cardinality((keyword_set \cup LangKeys(languages)) \cap ALL_TECH)

\* the resume dict d with its ats_score set to ats
WithAts(d, ats) ==
    [k \in DOMAIN d \cup {"ats_score"} |-> IF k = "ats_score" THEN ats ELSE d[k]]

\* the resume dict d without an ats_score
WithoutAts(d) == [k \in DOMAIN d \ {"ats_score"} |-> d[k]]

\* C12: with a resume present the resume-skill score equals
\* max(min(3 * matches, 30), 0.3 * ats_score) for every ats_score in [0, 100], and it
\* is never lower than the score of the same resume with ats_score absent or 0
C12_AtsOnlyRaises ==
    (Called("_resume_skill_score") /\ Truthy(call.resume)) =>
        LET d == call.resume.d
            ats == Get(d, "ats_score", 0)
            matches == ResumeMatches(call.resume, call.languages)
        IN  /\ ret.value = Max(Min(3 * matches, 30) * Unit, (3 * ats * Unit) \div 100)
            /\ ret.value >= _resume_skill_score(Dict(WithoutAts(d)), call.languages)
            /\ ret.value >= _resume_skill_score(Dict(WithAts(d, 0)), call.languages)

\* a resume whose ats_score lifts the score above its keyword score, and one whose
\* ats_score lies below the keyword score
C12_Witness ==
    /\ Called("_resume_skill_score")
    /\ Truthy(call.resume)
    /\ "ats_score" \in DOMAIN call.resume.d
    /\ LET keyword_score == Min(3 * ResumeMatches(call.resume, call.languages), 30) * Unit
       IN  \/ call.resume.d.ats_score = 820 /\ keyword_score = 6 * Unit
                /\ ret.value > keyword_score
           \/ call.resume.d.ats_score = 300 /\ keyword_score = 30 * Unit
                /\ ret.value = keyword_score

\* C13: with no resume the resume-skill score is min(3 * number of distinct declared
\* language names, 15), so it never exceeds 15
C13_NoResumeScore ==
    (Called("_resume_skill_score") /\ ~Truthy(call.resume)) =>
        /\ ret.value = Min(3 * Cardinality(call.languages), 15) * Unit
        /\ ret.value <= 15 * Unit

\* a call without a resume that declares more than five languages and gets 15 points
C13_Witness ==
    /\ Called("_resume_skill_score")
    /\ call.resume = None
    /\ Cardinality(call.languages) > 5
    /\ ret.value = 15 * Unit

---------------------------------------------------------------------------
(* properties of generate_training_plan called directly *)

Levels == {level_order[i] : i \in DOMAIN level_order}

\* the topics of one tier of one catalog
TierTopics(label, level) ==
    {ROLE_TRAINING_TOPICS[label][level][i] : i \in DOMAIN ROLE_TRAINING_TOPICS[label][level]}

\* the band a direct call plans for
CallBand == Get(call.score_result, "confidence_band", "Moderate")

\* the gap list a direct call plans for
CallGaps == Get(call.score_result, "learning_gaps", <<>>)

\* the catalog label of a role text: its category, or full stack when it has none
CatalogOf(role) ==
    LET key == _normalize_role_key(role)
    IN  IF key \in Labels THEN key ELSE "full stack"

\* the band table of the curriculum generator
BandTable ==
    [band \in {"Risk", "Moderate", "Good", "Strong"} |->
        CASE band = "Risk" -> <<8, "Foundational", "foundation">>
          [] band = "Moderate" -> <<6, "Strengthening", "foundation">>
          [] band = "Good" -> <<5, "Accelerated", "intermediate">>
          [] band = "Strong" -> <<4, "Advanced", "advanced">>]

\* C14: the plan of a band has the weeks and the track label of the fixed table, starts
\* at the table's level, and weekly_plan holds exactly that many entries, numbered
\* 1..N in increasing order
C14_BandTable ==
    (Called("generate_training_plan") /\ CallBand \in DOMAIN BandTable) =>
        LET p == ret.value
            row == BandTable[CallBand]
        IN  /\ p.summary.weeks = row[1]
            /\ p.summary.track = row[2]
            /\ p.weekly_plan[1].goal \in TierTopics(CatalogOf(call.role), row[3])
            /\ Len(p.weekly_plan) = row[1]
            /\ \A i \in DOMAIN p.weekly_plan : p.weekly_plan[i].week = i

\* a five-week plan for the band Good that opens with an intermediate backend topic
C14_Witness ==
    /\ Called("generate_training_plan")
    /\ CallBand = "Good"
    /\ Len(ret.value.weekly_plan) = 5
    /\ ret.value.weekly_plan[1].goal = "FastAPI / Django development"

\* C15: for the band Strong every week of the plan takes its goal and its topics from
\* the advanced tier of the role's catalog
C15_StrongIsAdvanced ==
    (Called("generate_training_plan") /\ CallBand = "Strong") =>
        LET p == ret.value
            advanced == TierTopics(CatalogOf(call.role), "advanced")
        IN  /\ Len(p.weekly_plan) = 4
            /\ \A i \in DOMAIN p.weekly_plan :
                   /\ p.weekly_plan[i].goal \in advanced
                   /\ \A j \in DOMAIN p.weekly_plan[i].topics :
                          p.weekly_plan[i].topics[j] \in advanced

\* a Strong plan for a devops title: its first and its last week are advanced
C15_Witness ==
    /\ Called("generate_training_plan")
    /\ CallBand = "Strong"
    /\ call.role = "Senior DevOps Developer"
    /\ ret.value.weekly_plan[1].goal = "Kubernetes orchestration"
    /\ ret.value.weekly_plan[4].goal = "Kubernetes orchestration"
    /\ ret.value.weekly_plan[3].topics = <<"Monitoring & observability", "Kubernetes orchestration">>

\* the labels the gap classification gives, for a role text
ClassificationLabels(role) ==
    {"Technology stack expansion for " \o role,
     "Regular coding practice & contribution discipline",
     "Project documentation & portfolio building",
     "Core " \o role \o " skill development",
     "Resume & professional profile enhancement",
     "Technical skill development"}

\* C16: with learning_gaps empty or missing the plan has exactly the 3 generic focus
\* areas, the first of which embeds the role text, and none of the labels of the gap
\* classification
C16_GenericFocusAreas ==
    (Called("generate_training_plan") /\ CallGaps = <<>>) =>
        LET focus_areas == ret.value.focus_areas
        IN  /\ Len(focus_areas) = 3
            /\ focus_areas = <<"Deep " \o call.role \o " specialization",
                               "Building production-ready projects",
                               "Industry best practices & patterns">>
            /\ Contains(focus_areas[1], call.role)
            /\ \A i \in DOMAIN focus_areas :
                   focus_areas[i] \notin ClassificationLabels(call.role)

\* a plan for a score_result without a learning_gaps key, and one with an empty list
C16_Witness ==
    /\ Called("generate_training_plan")
    /\ call.role = "Data Developer"
    /\ "learning_gaps" \notin DOMAIN call.score_result
    /\ ret.value.focus_areas[1] = "Deep Data Developer specialization"

\* every topic a plan lists in its weeks
WeeklyTopics(p) ==
    UNION {{p.weekly_plan[i].goal}
               \cup {p.weekly_plan[i].topics[j] : j \in DOMAIN p.weekly_plan[i].topics} :
           i \in DOMAIN p.weekly_plan}

\* a role text that names no category: an empty (or absent) text, or a text no label
\* matches
NamesNoCategory(role) ==
    Strip(role) = "" \/ ~LabelMatches(Lower(Strip(role)))

\* C17: for every role text that names no category (unknown, absent or empty) all
\* weekly topics come from the full-stack catalog
C17_NoCategoryIsFullStack ==
    (Called("generate_training_plan") /\ NamesNoCategory(call.role)) =>
        WeeklyTopics(ret.value) \subseteq UNION {TierTopics("full stack", l) : l \in Levels}

---------------------------------------------------------------------------
(* properties of the curve and of the recency scorer called directly *)

\* C18: for every scale > 0 the curve is non-decreasing in x, stays within [0, 1] and
\* is 0 for every x <= 0
C18_CurveMonotoneBounded ==
    Called("_log_curve") =>
        /\ ret.value \in 0..Unit
        /\ call.x <= 0 => ret.value = 0
        /\ \A y \in CurveCounts :
               y <= call.x => _log_curve(y, call.scale) <= ret.value

\* a count between 0 and the scale that gets part of the credit, more than the count
\* below it
C18_Witness ==
    /\ Called("_log_curve")
    /\ call.x = 5
    /\ call.scale = 20
    /\ ret.value \in 1..(Unit - 1)
    /\ _log_curve(4, 20) < ret.value

\* C19 as stated: the curve is strictly increasing over x > 0, and at x = scale its
\* value is strictly below full credit
C19_StrictBelowFullCredit ==
    Called("_log_curve") =>
        /\ \A y \in CurveCounts :
               (0 < y /\ y < call.x) => _log_curve(y, call.scale) < ret.value
        /\ call.x = call.scale => ret.value < Unit

\* C19 as amended: the curve is strictly increasing over 0 < x <= scale, reaches full
\* credit 1 at x = scale and stays at 1 for every x >= scale
C19_FullCreditAtScale ==
    Called("_log_curve") =>
        /\ \A y \in CurveCounts :
               (0 < y /\ y < call.x /\ call.x <= call.scale) =>
                   _log_curve(y, call.scale) < ret.value
        /\ call.x >= call.scale => ret.value = Unit
        /\ (0 < call.x /\ call.x < call.scale) => ret.value \in 1..(Unit - 1)

\* a count above the scale that gets the full credit the scale already gets
C19_Witness ==
    /\ Called("_log_curve")
    /\ call.scale = 20
    /\ call.x = 21
    /\ ret.value = Unit
    /\ _log_curve(20, 20) = Unit
    /\ _log_curve(19, 20) < Unit

\* the freshness table, on an age in whole days
FreshnessTable(days_ago) ==
    IF days_ago <= 7 THEN 5 * Unit
    ELSE IF days_ago <= 30 THEN 4 * Unit
    ELSE IF days_ago <= 90 THEN 3 * Unit
    ELSE IF days_ago <= 180 THEN (3 * Unit) \div 2
    ELSE 0

\* a last_activity value that parses as an ISO-8601 timestamp, with or without offset
ParsesAsIso(last_activity) == last_activity.kind \in {"aware", "naive"}

\* C20: the freshness bonus of the recency score is 0 when last_activity is absent, the
\* table value of the age for every last_activity that parses as an ISO-8601
\* timestamp, and the fallback 2 only when the value cannot be parsed
C20_FreshnessBonus ==
    Called("_recency_score") =>
        LET last_activity == call.metrics.last_activity
            commit_pts == _log_curve(call.metrics.commits_last_90_days, 20) * 5
            bonus == IF last_activity = None THEN 0
                     ELSE IF ParsesAsIso(last_activity)
                     THEN FreshnessTable(call.now - last_activity.day)
                     ELSE 2 * Unit
        IN  ret.value = _clamp(commit_pts + bonus, 0, 10 * Unit)

---------------------------------------------------------------------------
(* further properties of generate_training_plan called directly *)

\* the position (1..3) of the tier of a catalog that holds a topic
TierIndex(topic, label) ==
    CHOOSE k \in DOMAIN level_order : topic \in TierTopics(label, level_order[k])

\* the tier positions of the weeks of a plan, read from the weeks' goals
WeekTiers(p, label) ==
    [i \in DOMAIN p.weekly_plan |-> TierIndex(p.weekly_plan[i].goal, label)]

\* C21: in the plan of each of the four bands the tier never decreases from week to
\* week, week 1 is at the band's starting tier and the last week N (8, 6, 5, 4) is at
\* the advanced tier
C21_TiersNonDecreasing ==
    (Called("generate_training_plan") /\ CallBand \in DOMAIN BandTable) =>
        LET tiers == WeekTiers(ret.value, CatalogOf(call.role))
            N == BandTable[CallBand][1]
        IN  /\ Len(tiers) = N
            /\ level_order[tiers[1]] = BandTable[CallBand][3]
            /\ level_order[tiers[N]] = "advanced"
            /\ \A i \in 1..(N - 1) : tiers[i] <= tiers[i + 1]

\* an 8-week plan that passes through the three tiers, and a 5-week plan that starts
\* at the intermediate tier
C21_Witness ==
    /\ Called("generate_training_plan")
    /\ LET tiers == WeekTiers(ret.value, CatalogOf(call.role))
       IN  \/ CallBand = "Risk" /\ tiers = <<1, 1, 1, 1, 2, 2, 2, 3>>
           \/ CallBand = "Good" /\ tiers = <<2, 2, 2, 2, 3>>

\* the rules of the gap classification, in the order they are tried
FocusRules(role) ==
    << <<{"language", "diversity"}, "Technology stack expansion for " \o role>>,
       <<{"consistency", "commit"}, "Regular coding practice & contribution discipline">>,
       <<{"visibility", "documentation"}, "Project documentation & portfolio building">>,
       <<{"role", "align"}, "Core " \o role \o " skill development">>,
       <<{"resume"}, "Resume & professional profile enhancement">> >>

\* the label of the first rule one of whose words is in the lowercased gap text
Classify(gap, role) ==
    LET rules == FocusRules(role)
        hits == {k \in DOMAIN rules : \E word \in rules[k][1] : Contains(Lower(gap), word)}
    IN  IF hits = {} THEN "Technical skill development"
        ELSE rules[CHOOSE k \in hits : \A j \in hits : k <= j][2]

\* C22: for a non-empty learning_gaps the plan has min(len(gaps), 4) focus areas, and
\* focus area i is the first-match classification of gap i
C22_FocusAreasClassifyGaps ==
    (Called("generate_training_plan") /\ CallGaps # <<>>) =>
        LET focus_areas == ret.value.focus_areas
        IN  /\ Len(focus_areas) = Min(Len(CallGaps), 4)
            /\ \A i \in DOMAIN focus_areas :
                   focus_areas[i] = Classify(CallGaps[i], call.role)

\* a plan for five gaps, and one for a gap no rule matches
C22_Witness ==
    /\ Called("generate_training_plan")
    /\ \/ Len(CallGaps) = 5 /\ Len(ret.value.focus_areas) = 4
       \/ /\ CallGaps = <<GapResume, "Improve testing habits">>
          /\ ret.value.focus_areas = <<"Resume & professional profile enhancement",
                                       "Technical skill development">>

---------------------------------------------------------------------------
(* properties of scoring and planning over free-text role titles *)

\* an absent, empty or whitespace-only role
RoleBlank == role_applied = None \/ Strip(role_applied.s) = ""

\* the role text as the plan generator receives it
RoleText == IF role_applied.kind = "str" THEN role_applied.s ELSE ""

C28_UnresolvedRoleHasRoleGap ==
    (Returned /\ RoleKey \notin DOMAIN ROLE_KEYWORDS) =>
        /\ Breakdown.role_alignment_score = 75
        /\ \E i \in DOMAIN result.learning_gaps :
               result.learning_gaps[i] =
                   "Strengthen skills aligned to " \o role_applied.s \o " role"

\* an unresolved role whose only gap is the role-alignment message
C28_Witness ==
    /\ Returned
    /\ role_applied = Str("Space Pirate")
    /\ result.learning_gaps = <<"Strengthen skills aligned to Space Pirate role">>

\* keywords a resume may gain
AddedKeywords == {"python", " SQL ", "Teamwork", "pandas", "Flask"}

\* the resume with one more keyword in its keyword set
AddKeyword(resume, kw) ==
    Dict([resume.d EXCEPT !["keywords_detected"] = @ \cup {kw}])

GapSet(r) == {r.learning_gaps[i] : i \in DOMAIN r.learning_gaps}

\* the result just returned is the one for the current inputs and time
Fresh == result = compute_scores(github_metrics, resume_data, role_applied, clock)

\* C29: with a resume present and the other inputs fixed, one more resume keyword never
\* lowers the resume-skill score, the role-alignment score, an all_role_scores
\* percentage or master_score, and adds no message to learning_gaps
C29_KeywordsNeverHurt ==
    (Returned /\ Truthy(resume_data) /\ Fresh) =>
        \A kw \in AddedKeywords :
            LET more == compute_scores(github_metrics, AddKeyword(resume_data, kw),
                                       role_applied, clock)
            IN  /\ more.kind = "CompositeResult"
                /\ more.score_breakdown.resume_skill_score >= Breakdown.resume_skill_score
                /\ more.score_breakdown.role_alignment_score >= Breakdown.role_alignment_score
                /\ \A c \in DOMAIN Breakdown.all_role_scores :
                       more.score_breakdown.all_role_scores[c] >= Breakdown.all_role_scores[c]
                /\ more.master_score >= result.master_score
                /\ GapSet(more) \subseteq GapSet(result)

\* a resume for which the keyword python raises the scores and takes the resume
\* message off the list, and which the keyword Flask lifts over the role-alignment gap
C29_Witness ==
    /\ Returned
    /\ Truthy(resume_data)
    /\ Fresh
    /\ LET more == compute_scores(github_metrics, AddKeyword(resume_data, "python"),
                                  role_applied, clock)
       IN  /\ more.master_score > result.master_score
           /\ more.score_breakdown.resume_skill_score > Breakdown.resume_skill_score
           /\ more.score_breakdown.role_alignment_score > Breakdown.role_alignment_score
           /\ GapSet(result) \ GapSet(more) = {GapResume}
    /\ \E other \in {r \in PipelineResumes : Truthy(r)} :
           LET before == compute_scores(github_metrics, other, role_applied, clock)
               after == compute_scores(github_metrics, AddKeyword(other, "Flask"),
                                       role_applied, clock)
           IN  GapSet(before) \ GapSet(after) = {GapRole(role_applied)}

\* C30: in a plan made from a compute_scores result and the same role text, the
\* role-alignment message, when among the first four gaps, is classified as
\* "Core <role_applied> skill development"
C30_RoleGapIsCoreSkill ==
    (Returned /\ plan.kind = "TrainingPlan") =>
        \A i \in 1..Min(Len(result.learning_gaps), 4) :
            result.learning_gaps[i] = GapRole(role_applied) =>
                /\ i \in DOMAIN plan.focus_areas
                /\ plan.focus_areas[i] = "Core " \o RoleText \o " skill development"

---------------------------------------------------------------------------
(* properties of the application routes *)

\* the step answers a request of the named route that found the row
Answers(route) ==
    /\ response'.route = route
    /\ response'.code # 404
    /\ db_obj # None

\* the LLM generator yielded no plan: nothing, or an empty object
NoLlmPlan(llm_plan) == llm_plan = None \/ llm_plan = Dict(<<>>)

\* the deterministic plan for the stored score, band, gaps, role and name of a row
DeterministicPlan(row) ==
    generate_training_plan(
        [master_score |-> row.master_score.value,
         confidence_band |-> row.confidence_band,
         learning_gaps |-> row.learning_gaps],
        row.role_applied, row.full_name)

\* C23: a generate-plan request on a scored application always stores a training plan:
\* the deterministic plan exactly when the LLM generator yields no plan, otherwise the LLM
\* plan; a request on an unknown or unscored application is answered 404 or 400 and leaves
\* the stored plan unchanged
C23_GeneratePlanStores ==
    [][response'.route = "generate_plan" =>
          IF response'.application_id # 1 \/ db_obj = None
          THEN response'.code = 404 /\ db_obj' = db_obj
          ELSE IF db_obj.master_score = None
          THEN response'.code = 400 /\ db_obj' = db_obj
          ELSE /\ response'.code = 200
               /\ db_obj'.training_plan # None
               /\ db_obj'.training_plan = DeterministicPlan(db_obj)
                      <=> NoLlmPlan(response'.llm_plan)
               /\ ~NoLlmPlan(response'.llm_plan)
                      => db_obj'.training_plan = response'.llm_plan
               /\ db_obj' = [db_obj EXCEPT !.training_plan = db_obj'.training_plan]]_vars

\* the LLM answered with an empty object and the deterministic plan was stored for an
\* accepted application
C23_Witness ==
    /\ response.route = "generate_plan"
    /\ response.code = 200
    /\ response.llm_plan = Dict(<<>>)
    /\ db_obj.training_plan.kind = "TrainingPlan"
    /\ db_obj.status = "accepted"

\* a crew plan that is a dict with a non-empty weekly_plan
UsableCrewPlan(outcome) ==
    /\ outcome.kind = "result"
    /\ outcome.training_plan.kind = "dict"
    /\ "weekly_plan" \in DOMAIN outcome.training_plan.d
    /\ outcome.training_plan.d["weekly_plan"] \notin {None, List(<<>>), Str(""), Dict(<<>>)}

\* C24: a verification run replaces the stored training plan only if the crew returned a
\* dict plan with a non-empty weekly_plan, and then with that plan; every other outcome,
\* a pipeline error included, leaves the stored plan unchanged; a created application
\* starts without a plan
C24_VerificationKeepsPlan ==
    [][/\ Answers("verify_candidate") =>
              IF UsableCrewPlan(response'.outcome)
              THEN db_obj'.training_plan = response'.outcome.training_plan
              ELSE db_obj'.training_plan = db_obj.training_plan
       /\ (Answers("verify_candidate") /\ response'.outcome.kind = "raised") =>
              /\ response'.code \in {500, 503}
              /\ db_obj' = db_obj
       /\ response'.route = "create_application" => db_obj'.training_plan = None]_vars

\* a pipeline error left a stored deterministic plan in place
C24_Witness ==
    /\ response.route = "verify_candidate"
    /\ response.code = 500
    /\ db_obj.training_plan.kind = "TrainingPlan"

StatusEdges ==
    {<<"pending", "in_review">>, <<"pending", "accepted">>, <<"pending", "rejected">>,
     <<"in_review", "accepted">>, <<"in_review", "rejected">>, <<"accepted", "intern">>}

\* how far a status is from pending
StatusRank(status) ==
    CASE status = "pending" -> 0
      [] status = "in_review" -> 1
      [] status = "accepted" -> 2
      [] OTHER -> 3

\* C25: the status of an application changes only along the edges pending ->
\* {in_review, accepted, rejected}, in_review -> {accepted, rejected}, accepted ->
\* {intern}, and only by update_status; any other requested transition is answered 400 and
\* leaves the row unchanged; rejected and intern are terminal, a created application is
\* pending, and the status never returns to an earlier value
C25_StatusTransitions ==
    [][/\ db_obj = None => (db_obj' = None \/ db_obj'.status = "pending")
       /\ db_obj # None =>
              /\ db_obj' # None
              /\ db_obj'.status # db_obj.status =>
                     /\ response'.route = "update_status"
                     /\ response'.code = 200
                     /\ db_obj'.status = response'.status
                     /\ <<db_obj.status, db_obj'.status>> \in StatusEdges
                     /\ StatusRank(db_obj'.status) > StatusRank(db_obj.status)
              /\ db_obj.status \in {"rejected", "intern"} => db_obj'.status = db_obj.status
              /\ (Answers("update_status")
                      /\ <<db_obj.status, response'.status>> \notin StatusEdges) =>
                     /\ response'.code = 400
                     /\ db_obj' = db_obj
              /\ (Answers("update_status")
                      /\ <<db_obj.status, response'.status>> \in StatusEdges) =>
                     /\ response'.code = 200
                     /\ db_obj'.status = response'.status]_vars

\* an intern whose request to become pending again was refused
C25_Witness ==
    /\ db_obj # None
    /\ db_obj.status = "intern"
    /\ response.route = "update_status"
    /\ response.status = "pending"
    /\ response.code = 400

====
